---- MODULE Spec2Model ----
(***************************************************************************)
(* parq-cli: the Parquet reader (parq/reader.py), the command-line entry   *)
(* point (parq/cli.py) and the table renderer (parq/output.py) as a state  *)
(* machine.                                                                *)
(*                                                                         *)
(* A file on disk is a record: what the path holds, the footer the writer  *)
(* stored, the row-group sizes and which row group (if any) has bytes that *)
(* do not decode.  Row groups are numbered 1..k here; the code and the     *)
(* specification number them 0..k-1.                                       *)
(*                                                                         *)
(* Optional Python values (None / a value) are sequences of length 0 / 1.  *)
(***************************************************************************)
EXTENDS Integers, Sequences, FiniteSets, TLC

\* ------------------------------------------------------------- bounds
MaxGroups == 2
MaxGroupRows == 2
MaxN == 3

\* ------------------------------------------------------------- helpers
None == <<>>
Some(x) == <<x>>
IsNone(o) == Len(o) = 0
Val(o) == o[1]

Min(a, b) == IF a < b THEN a ELSE b
Max(a, b) == IF a > b THEN a ELSE b

Range(s) == {s[i] : i \in 1..Len(s)}

RECURSIVE SumSeq(_)
SumSeq(s) == IF Len(s) = 0 THEN 0 ELSE s[1] + SumSeq(Tail(s))

RECURSIVE Flatten(_)
Flatten(ss) == IF Len(ss) = 0 THEN <<>> ELSE ss[1] \o Flatten(Tail(ss))

\* All sequences over S of length 0..n.
SeqsUpTo(S, n) == UNION {[1..k -> S] : k \in 0..n}

\* ------------------------------------------------------------- containers
\* A schema is an ordered list of top-level fields; leaves are the physical
\* (flattened) columns that store the field.
FlatSchema ==
    << [name |-> "id", type |-> "int64", nullable |-> FALSE, leaves |-> <<"id">>],
       [name |-> "score", type |-> "int64", nullable |-> TRUE, leaves |-> <<"score">>] >>

NestedSchema ==
    << [name |-> "id", type |-> "int64", nullable |-> FALSE, leaves |-> <<"id">>],
       [name |-> "point", type |-> "struct<x: int64, y: int64>", nullable |-> TRUE,
        leaves |-> <<"point.x", "point.y">>] >>

Schemas == {FlatSchema, NestedSchema}

UnknownName == "nonexistent_col"

FieldNames(schema) == [i \in 1..Len(schema) |-> schema[i].name]

RECURSIVE LeafCount(_)
LeafCount(schema) ==
    IF Len(schema) = 0 THEN 0 ELSE Len(schema[1].leaves) + LeafCount(Tail(schema))

\* The value stored in field f of the row with (1-based) on-disk index i.
Cell(f, i) ==
    IF f.name = "id" THEN 100 + i
    ELSE IF f.name = "score" THEN (7 * i) % 5
    ELSE [x |-> i, y |-> 2 * i]

\* The row with on-disk index i, restricted to the fields of `schema`.
Row(schema, i) == [c \in Range(FieldNames(schema)) |-> Cell(CHOOSE f \in Range(schema) : f.name = c, i)]

\* Footer of a well-formed container, as the writer stores it.
WrittenFooter(schema, groups) ==
    [ num_rows |-> SumSeq(groups),
      num_columns |-> LeafCount(schema),
      num_row_groups |-> Len(groups),
      format_version |-> "2.6",
      serialized_size |-> 100 + 50 * LeafCount(schema) + 40 * Len(groups),
      created_by |-> "parquet-cpp-arrow",
      schema |-> schema ]

MissingFile == [kind |-> "missing"]
CorruptFile == [kind |-> "corrupt"]

\* bad = 0: every row group decodes; bad = g: the bytes of row group g do not.
ValidFiles ==
    { [kind |-> "valid", footer |-> WrittenFooter(s, g), groups |-> g, bad |-> b] :
        s \in Schemas, g \in SeqsUpTo(1..MaxGroupRows, MaxGroups), b \in 0..MaxGroups }

Files == {MissingFile, CorruptFile} \cup {f \in ValidFiles : f.bad <= Len(f.groups)}

\* On-disk index of the row before the first row of row group g.
GroupOffset(groups, g) == SumSeq(SubSeq(groups, 1, g - 1))

\* ------------------------------------------------------------- pyarrow tables
\* A table is its schema and its chunks; a chunk is a sequence of rows.
EmptyTable == [schema |-> <<>>, chunks |-> <<>>]

NumRows(t) == Len(Flatten(t.chunks))
Rows(t) == Flatten(t.chunks)
ColumnNames(t) == FieldNames(t.schema)

\* Decoding row group g for the fields of `schema`.
DecodeGroup(f, schema, g) ==
    [k \in 1..f.groups[g] |-> Row(schema, GroupOffset(f.groups, g) + k)]

\* A projection that is ignored: every field comes back.
SelectAllFields(schema, columns) == schema

\* The fields selected by a `columns` argument (None = all); names that are
\* not in the schema select nothing.
SelectFields(schema, columns) ==
    IF IsNone(columns) THEN schema
    ELSE SelectSeq(schema, LAMBDA fld : fld.name \in Range(Val(columns)))

\* The row groups ParquetFile.read() decodes: all of them.
ReadGroups(f) == 1..Len(f.groups)

\* ParquetFile.read(columns): one chunk per row group.
ParquetFileRead(f, columns) ==
    LET sel == SelectFields(f.footer.schema, columns)
    IN  [schema |-> sel,
         chunks |-> [g \in 1..Len(f.groups) |-> DecodeGroup(f, sel, g)]]

\* Whether read() fails: one of the row groups it decodes does not decode.
ReadFails(f) == f.bad \in ReadGroups(f)

RECURSIVE SliceChunks(_, _, _)
SliceChunks(chunks, offset, length) ==
    IF Len(chunks) = 0 \/ length <= 0 THEN <<>>
    ELSE IF offset >= Len(chunks[1]) THEN SliceChunks(Tail(chunks), offset - Len(chunks[1]), length)
    ELSE LET take == Min(length, Len(chunks[1]) - offset)
         IN  <<SubSeq(chunks[1], offset + 1, offset + take)>>
               \o SliceChunks(Tail(chunks), 0, length - take)

\* Table.slice(offset, length): zero-copy, clamped to the rows available.
TableSlice(t, offset, length) ==
    [schema |-> t.schema, chunks |-> SliceChunks(t.chunks, offset, length)]

\* Table.to_batches(): the non-empty chunks, in order.
ToBatches(t) == SelectSeq(t.chunks, LAMBDA c : Len(c) > 0)

\* ------------------------------------------------------------- ParquetReader
\* Results of a reader call: a table or a value, or the exception raised.
\* decoded = the row groups whose bytes the call decoded.
Ok(t, v, d) == [ok |-> TRUE, error |-> "", table |-> t, value |-> v, decoded |-> d]
Raise(e, d) == [ok |-> FALSE, error |-> e, table |-> EmptyTable, value |-> 0, decoded |-> d]

\* pq.ParquetFile(path): parses the footer, once.
ParquetFileOpen(f) == [metadata |-> f.footer, schema_arrow |-> f.footer.schema]

\* __init__ without the existence check: pq.ParquetFile meets the missing file.
InitWithoutExistsCheck(path, f) ==
    IF f.kind \in {"missing", "corrupt"}
    THEN [ok |-> FALSE, error |-> IF f.kind = "missing" THEN "OSError" ELSE "ArrowInvalid",
          reader |-> None, footer_parses |-> 1]
    ELSE [ok |-> TRUE, error |-> "", footer_parses |-> 1,
          reader |-> Some([file_path |-> path, parquet_file |-> ParquetFileOpen(f)])]

\* __init__ that swallows the footer error and hands out a reader without a footer.
InitKeepsHandle(path, f) ==
    IF f.kind = "missing"
    THEN [ok |-> FALSE, error |-> "FileNotFoundError", reader |-> None, footer_parses |-> 0]
    ELSE IF f.kind = "corrupt"
    THEN [ok |-> FALSE, error |-> "ArrowInvalid", footer_parses |-> 1,
          reader |-> Some([file_path |-> path])]
    ELSE [ok |-> TRUE, error |-> "", footer_parses |-> 1,
          reader |-> Some([file_path |-> path, parquet_file |-> ParquetFileOpen(f)])]

\* ParquetReader.__init__: the existence check, then the footer parse.
\* footer_parses counts the calls of pq.ParquetFile.  The exception names are
\* Python's: FileNotFoundError is the specification's NotFound, and the
\* ArrowInvalid that pq.ParquetFile raises on a footer it cannot parse is its
\* CorruptContainer.
ParquetReaderInit(path, f) ==
    IF f.kind = "missing"
    THEN [ok |-> FALSE, error |-> "FileNotFoundError", reader |-> None, footer_parses |-> 0]
    ELSE IF f.kind = "corrupt"
    THEN [ok |-> FALSE, error |-> "ArrowInvalid", reader |-> None, footer_parses |-> 1]
    ELSE [ok |-> TRUE, error |-> "", footer_parses |-> 1,
          reader |-> Some([file_path |-> path, parquet_file |-> ParquetFileOpen(f)])]

Metadata(r) == r.parquet_file.metadata
SchemaOf(r) == r.parquet_file.schema_arrow
\* num_rows that reads the wrong footer field.
NumRowsFromRowGroups(r) == Metadata(r).num_row_groups

ReaderNumRows(r) == Metadata(r).num_rows
ReaderNumColumns(r) == Metadata(r).num_columns
ReaderNumRowGroups(r) == Metadata(r).num_row_groups

\* get_metadata_dict: an ordered dict, as <<key, value>> pairs in insertion order.
GetMetadataDict(r) ==
    << <<"file_path", r.file_path>>,
       <<"num_rows", ReaderNumRows(r)>>,
       <<"num_columns", ReaderNumColumns(r)>>,
       <<"num_row_groups", ReaderNumRowGroups(r)>>,
       <<"format_version", Metadata(r).format_version>>,
       <<"serialized_size", Metadata(r).serialized_size>>,
       <<"created_by", Metadata(r).created_by>> >>

\* get_schema_info: one entry per top-level field of the arrow schema.
GetSchemaInfo(r) ==
    [i \in 1..Len(SchemaOf(r)) |->
        [name |-> SchemaOf(r)[i].name, type |-> SchemaOf(r)[i].type,
         nullable |-> SchemaOf(r)[i].nullable]]

\* read_head that slices one row too many.
ReadHeadOffByOne(r, f, n) ==
    IF ReadFails(f) THEN Raise("OSError", ReadGroups(f))
    ELSE Ok(TableSlice(ParquetFileRead(f, None), 0, Min(n, ReaderNumRows(r)) + 1), 0, ReadGroups(f))

\* read_head: read everything, then slice.
ReadHead(r, f, n) ==
    IF ReadFails(f) THEN Raise("OSError", ReadGroups(f))
    ELSE Ok(TableSlice(ParquetFileRead(f, None), 0, Min(n, ReaderNumRows(r))), 0, ReadGroups(f))

\* read_tail that starts one row early.
ReadTailOffByOne(r, f, n) ==
    IF ReadFails(f) THEN Raise("OSError", ReadGroups(f))
    ELSE LET start == Max(0, ReaderNumRows(r) - n - 1)
         IN  Ok(TableSlice(ParquetFileRead(f, None), start, n), 0, ReadGroups(f))

\* read_tail: read everything, then slice from max(0, num_rows - n).
ReadTail(r, f, n) ==
    IF ReadFails(f) THEN Raise("OSError", ReadGroups(f))
    ELSE LET start == Max(0, ReaderNumRows(r) - n)
         IN  Ok(TableSlice(ParquetFileRead(f, None), start, n), 0, ReadGroups(f))

\* read_columns: the names go to ParquetFile.read unchecked.
ReadColumns(r, f, columns) ==
    IF ReadFails(f) THEN Raise("OSError", ReadGroups(f))
    ELSE Ok(ParquetFileRead(f, columns), 0, ReadGroups(f))

\* The num_rows property: a footer field, no decoding.
NumRowsCall(r) == Ok(EmptyTable, ReaderNumRows(r), {})

\* ------------------------------------------------------------- OutputFormatter
StrKeys == {"file_path", "format_version", "created_by"}

\* f"{value}" of a metadata value.
FormatValue(key, value) == IF key \in StrKeys THEN value ELSE ToString(value)

MetadataNote(key) ==
    IF key = "num_columns" THEN "(logical)"
    ELSE IF key = "num_physical_columns" THEN "(storage)"
    ELSE ""

\* print_metadata: one line per key of the dict, in order.
PrintMetadata(d) ==
    [kind |-> "metadata",
     lines |-> [i \in 1..Len(d) |->
                  [key |-> d[i][1], value |-> FormatValue(d[i][1], d[i][2]),
                   note |-> MetadataNote(d[i][1])]]]

\* print_schema: name, type and the nullability glyph of every entry.
PrintSchema(info) ==
    [kind |-> "schema",
     rows |-> [i \in 1..Len(info) |->
                 <<info[i].name, info[i].type, IF info[i].nullable THEN "Y" ELSE "N">>]]

\* print_count: f"{count:,}" (counts here stay below 1000: no separator).
PrintCount(count) == [kind |-> "count", text |-> ToString(count) \o " rows"]

PrintError(message) == [kind |-> "error", message |-> message]

\* str(value) of a cell of a column of the given type.
PyStr(type, v) ==
    IF type = "int64" THEN ToString(v)
    ELSE "{'x': " \o ToString(v.x) \o ", 'y': " \o ToString(v.y) \o "}"

\* batch.to_pydict(): column name -> list of values.
ToPydict(batch, names) ==
    [c \in Range(names) |-> [k \in 1..Len(batch) |-> batch[k][c]]]

\* The list comprehension indexing every column at the first row of the batch.
RowValuesFirstRow(batch_dict, schema, row_idx) ==
    [j \in 1..Len(schema) |-> PyStr(schema[j].type, batch_dict[schema[j].name][1])]

\* The list comprehension of print_table: one display string per column.
RowValues(batch_dict, schema, row_idx) ==
    [j \in 1..Len(schema) |->
        PyStr(schema[j].type, batch_dict[schema[j].name][row_idx + 1])]

\* ------------------------------------------------------------- state
VARIABLES
    file,       \* what the path holds on disk (containers are immutable inputs)
    pc,         \* position of the session: "idle", a line of main(), or "api"
    args,       \* the arguments main() was invoked with
    reader,     \* the ParquetReader of the session: None, or Some(reader)
    exc,        \* the exception propagating to the except clauses of main()
    call,       \* the last call made on the reader, with its result
    table,      \* the local `table` of main()
    pt,         \* the frame of print_table
    console,    \* what was printed, in order
    exit_code,  \* the exit code of the process: None while it has not ended
    footer_parses, \* how often the process has called pq.ParquetFile
    fd          \* whether the descriptor pq.ParquetFile opened is still held

vars == <<file, pc, args, reader, exc, call, table, pt, console, exit_code,
          footer_parses, fd>>

Path == "data.parquet"

NoCall == [op |-> "none", n |-> 0, columns |-> None] @@ Ok(EmptyTable, 0, {})
CallOf(op, n, columns, res) == [op |-> op, n |-> n, columns |-> columns] @@ res

NoFrame ==
    [title |-> "", schema |-> <<>>, columns |-> <<>>, rows |-> <<>>, batches |-> <<>>,
     bi |-> 0, batch_dict |-> <<>>, batch_size |-> 0, row_idx |-> 0, ret |-> ""]

NoArgs ==
    [file |-> None, schema |-> FALSE, head |-> None, tail |-> None,
     count |-> FALSE, version |-> FALSE]

Counts == {None} \cup {Some(n) : n \in 0..MaxN}

\* The command lines tried: every combination of the four display options on
\* a file, plus --version alone and no arguments at all.
ArgsSet ==
    { [file |-> Some(Path), schema |-> s, head |-> h, tail |-> t, count |-> c,
       version |-> FALSE] : s \in BOOLEAN, h \in Counts, t \in Counts, c \in BOOLEAN }
    \cup {[NoArgs EXCEPT !.version = TRUE], NoArgs}

\* The `columns` arguments tried on read_columns.
ColumnRequests ==
    {None} \cup {Some(<<c>>) : c \in {"id", "score", "point", UnknownName}}
           \cup {Some(<<c, UnknownName>>) : c \in {"id", "score", "point"}}

\* No process is running: nothing is in memory.
NoProcess ==
    /\ pc = "idle"
    /\ args = NoArgs
    /\ reader = None
    /\ exc = ""
    /\ call = NoCall
    /\ table = EmptyTable
    /\ pt = NoFrame
    /\ console = <<>>
    /\ exit_code = None
    /\ footer_parses = 0
    /\ fd = FALSE

Init ==
    /\ file \in Files
    /\ NoProcess

\* The memory of a process that ends is gone, and its descriptors are closed.
ReleaseProcess ==
    /\ pc' = "idle"
    /\ args' = NoArgs
    /\ reader' = None
    /\ exc' = ""
    /\ call' = NoCall
    /\ table' = EmptyTable
    /\ pt' = NoFrame
    /\ console' = <<>>
    /\ exit_code' = None
    /\ footer_parses' = 0
    /\ fd' = FALSE

\* The record of a constructor call: value = the footer parses it made.
OpenResult(r) == [ok |-> r.ok, error |-> r.error, table |-> EmptyTable,
                  value |-> r.footer_parses, decoded |-> {}]

\* The reader and the footer parses of the process, as a query finds them.
Handle == [reader |-> reader, footer_parses |-> footer_parses]

\* A query that parses the footer again on every access.
QueryReparsesFooter(h) == [h EXCEPT !.footer_parses = @ + 1]

\* What a query leaves of them: metadata, schema, num_rows, num_columns,
\* num_row_groups, get_metadata_dict, get_schema_info, read_head, read_tail
\* and read_columns read self._parquet_file and self.file_path, assign no
\* attribute and construct no ParquetFile.
AfterQuery(h) == h

Query ==
    /\ reader' = AfterQuery(Handle).reader
    /\ footer_parses' = AfterQuery(Handle).footer_parses

\* ------------------------------------------------------------- main()
\* The "no options" test without --count in its list.
NoOptionsIgnoresCount(a) == ~(a.schema \/ ~IsNone(a.head) \/ ~IsNone(a.tail))

NoOptions(a) == ~(a.schema \/ ~IsNone(a.head) \/ ~IsNone(a.tail) \/ a.count)

\* The process starts: main() runs up to the try block.
\* --version echoes and returns; a missing FILE echoes and exits with 1.
Invoke ==
    /\ pc = "idle"
    /\ \E a \in ArgsSet :
        /\ args' = a
        /\ IF a.version
           THEN /\ console' = <<[kind |-> "echo", text |-> "parq-cli version"]>>
                /\ exit_code' = Some(0)
                /\ pc' = "done"
           ELSE IF IsNone(a.file)
           THEN /\ console' = <<[kind |-> "echo", text |-> "Error: Missing argument 'FILE'."],
                                [kind |-> "echo", text |-> "Try 'parq --help' for help."]>>
                /\ exit_code' = Some(1)
                /\ pc' = "done"
           ELSE /\ console' = <<>>
                /\ exit_code' = None
                /\ pc' = "open"
    /\ reader' = None
    /\ exc' = ""
    /\ call' = NoCall
    /\ table' = EmptyTable
    /\ pt' = NoFrame
    /\ footer_parses' = 0
    /\ fd' = FALSE
    /\ UNCHANGED file

\* reader = ParquetReader(str(file)), then the test for "no options".
\* A ParquetFile that was constructed holds the descriptor it opened.
MainOpen ==
    /\ pc = "open"
    /\ LET r == ParquetReaderInit(Val(args.file), file)
       IN  /\ reader' = r.reader
           /\ footer_parses' = footer_parses + r.footer_parses
           /\ fd' = r.ok
           /\ exc' = r.error
           /\ call' = CallOf("open", 0, None, OpenResult(r))
           /\ pc' = IF ~r.ok THEN "except"
                    ELSE IF NoOptions(args) THEN "metadata" ELSE "schema"
    /\ UNCHANGED <<file, args, table, pt, console, exit_code>>

\* No options: print the metadata and return.  The return frees the frame
\* of main() and the reader in it, and with the reader its descriptor.
MainMetadata ==
    /\ pc = "metadata"
    /\ console' = Append(console, PrintMetadata(GetMetadataDict(Val(reader))))
    /\ call' = CallOf("get_metadata_dict", 0, None, Ok(EmptyTable, 0, {}))
    /\ Query
    /\ exit_code' = Some(0)
    /\ pc' = "done"
    /\ fd' = FALSE
    /\ UNCHANGED <<file, args, exc, table, pt>>

\* if schema: print the schema.
MainSchema ==
    /\ pc = "schema"
    /\ IF args.schema
       THEN /\ console' = Append(console, PrintSchema(GetSchemaInfo(Val(reader))))
            /\ call' = CallOf("get_schema_info", 0, None, Ok(EmptyTable, 0, {}))
            /\ Query
       ELSE UNCHANGED <<console, call, reader, footer_parses>>
    /\ pc' = "head"
    /\ UNCHANGED <<file, args, exc, table, pt, exit_code, fd>>

\* print_table up to its loop: the rich table, its columns, the batch iterator.
EnterPrintTable(t, title, ret) ==
    [title |-> title, schema |-> t.schema, columns |-> ColumnNames(t), rows |-> <<>>,
     batches |-> ToBatches(t), bi |-> 0, batch_dict |-> <<>>, batch_size |-> 0,
     row_idx |-> 0, ret |-> ret]

\* if head is not None: table = reader.read_head(head); print_table(...).
MainHead ==
    /\ pc = "head"
    /\ IF IsNone(args.head)
       THEN /\ pc' = "tail"
            /\ UNCHANGED <<call, table, pt, exc, reader, footer_parses>>
       ELSE LET res == ReadHead(Val(reader), file, Val(args.head))
            IN  /\ call' = CallOf("read_head", Val(args.head), None, res)
                /\ Query
                /\ IF res.ok
                   THEN /\ table' = res.table
                        /\ pt' = EnterPrintTable(res.table,
                                    "First " \o ToString(Val(args.head)) \o " Rows", "tail")
                        /\ pc' = "for_batch"
                        /\ UNCHANGED exc
                   ELSE /\ exc' = res.error
                        /\ pc' = "except"
                        /\ UNCHANGED <<table, pt>>
    /\ UNCHANGED <<file, args, console, exit_code, fd>>

\* if tail is not None: table = reader.read_tail(tail); print_table(...).
MainTail ==
    /\ pc = "tail"
    /\ IF IsNone(args.tail)
       THEN /\ pc' = "count"
            /\ UNCHANGED <<call, table, pt, exc, reader, footer_parses>>
       ELSE LET res == ReadTail(Val(reader), file, Val(args.tail))
            IN  /\ call' = CallOf("read_tail", Val(args.tail), None, res)
                /\ Query
                /\ IF res.ok
                   THEN /\ table' = res.table
                        /\ pt' = EnterPrintTable(res.table,
                                    "Last " \o ToString(Val(args.tail)) \o " Rows", "count")
                        /\ pc' = "for_batch"
                        /\ UNCHANGED exc
                   ELSE /\ exc' = res.error
                        /\ pc' = "except"
                        /\ UNCHANGED <<table, pt>>
    /\ UNCHANGED <<file, args, console, exit_code, fd>>

\* if count: print the count.  The try block ends and main() returns: its
\* frame and the reader in it are freed, and with the reader its descriptor.
MainCount ==
    /\ pc = "count"
    /\ IF args.count
       THEN /\ console' = Append(console, PrintCount(NumRowsCall(Val(reader)).value))
            /\ call' = CallOf("num_rows", 0, None, NumRowsCall(Val(reader)))
            /\ Query
       ELSE UNCHANGED <<console, call, reader, footer_parses>>
    /\ exit_code' = Some(0)
    /\ pc' = "done"
    /\ fd' = FALSE
    /\ UNCHANGED <<file, args, exc, table, pt>>

\* The except clauses: the error message, then typer.Exit(code=1).  Nothing
\* closes the reader, and the traceback of the exception that leaves main()
\* keeps its frame, so a descriptor that is held stays held.
ErrorMessage(e, path) ==
    IF e = "FileNotFoundError" THEN "File not found: " \o path
    ELSE "Failed to read Parquet file: " \o e

MainExcept ==
    /\ pc = "except"
    /\ console' = Append(console, PrintError(ErrorMessage(exc, Val(args.file))))
    /\ exit_code' = Some(1)
    /\ pc' = "done"
    /\ UNCHANGED <<file, args, reader, exc, call, table, pt, footer_parses, fd>>

\* The process has ended; the next invocation starts from nothing.
ProcessEnd ==
    /\ pc = "done"
    /\ ReleaseProcess
    /\ UNCHANGED file

\* ------------------------------------------------------------- print_table
\* for batch in arrow_table.to_batches(): the next batch, or the end of the
\* loop and console.print(table).
PrintTableBatch ==
    /\ pc = "for_batch"
    /\ IF pt.bi < Len(pt.batches)
       THEN /\ pt' = [pt EXCEPT !.bi = pt.bi + 1,
                                !.batch_dict = ToPydict(pt.batches[pt.bi + 1], pt.columns),
                                !.batch_size = Len(pt.batches[pt.bi + 1]),
                                !.row_idx = 0]
            /\ pc' = "for_row"
            /\ UNCHANGED console
       ELSE /\ console' = Append(console,
                [kind |-> "table", title |-> pt.title, columns |-> pt.columns, rows |-> pt.rows])
            /\ pc' = pt.ret
            /\ UNCHANGED pt
    /\ UNCHANGED <<file, args, reader, exc, call, table, exit_code, footer_parses, fd>>

\* for row_idx in range(batch_size): table.add_row(*row_values).
PrintTableRow ==
    /\ pc = "for_row"
    /\ IF pt.row_idx < pt.batch_size
       THEN /\ pt' = [pt EXCEPT !.rows = Append(pt.rows, RowValues(pt.batch_dict, pt.schema, pt.row_idx)),
                                !.row_idx = pt.row_idx + 1]
            /\ pc' = "for_row"
       ELSE /\ pc' = "for_batch"
            /\ UNCHANGED pt
    /\ UNCHANGED <<file, args, reader, exc, call, table, console, exit_code,
                   footer_parses, fd>>

\* ------------------------------------------------------------- library use
\* A program that uses ParquetReader directly: construct, query, drop.
\* A constructor that raises ends the program.
ApiOpen ==
    /\ pc = "idle"
    /\ LET r == ParquetReaderInit(Path, file)
       IN  /\ reader' = r.reader
           /\ call' = CallOf("open", 0, None, OpenResult(r))
           /\ footer_parses' = r.footer_parses
           /\ fd' = r.ok
           /\ pc' = IF r.ok THEN "api" ELSE "idle"
    /\ args' = NoArgs
    /\ exc' = ""
    /\ table' = EmptyTable
    /\ pt' = NoFrame
    /\ console' = <<>>
    /\ exit_code' = None
    /\ UNCHANGED file

ApiFrame == <<file, pc, args, exc, table, pt, console, exit_code, fd>>

ApiReadHead ==
    /\ pc = "api"
    /\ \E n \in 0..MaxN : call' = CallOf("read_head", n, None, ReadHead(Val(reader), file, n))
    /\ Query
    /\ UNCHANGED ApiFrame

ApiReadTail ==
    /\ pc = "api"
    /\ \E n \in 0..MaxN : call' = CallOf("read_tail", n, None, ReadTail(Val(reader), file, n))
    /\ Query
    /\ UNCHANGED ApiFrame

ApiReadColumns ==
    /\ pc = "api"
    /\ \E c \in ColumnRequests :
           call' = CallOf("read_columns", 0, c, ReadColumns(Val(reader), file, c))
    /\ Query
    /\ UNCHANGED ApiFrame

ApiNumRows ==
    /\ pc = "api"
    /\ call' = CallOf("num_rows", 0, None, NumRowsCall(Val(reader)))
    /\ Query
    /\ UNCHANGED ApiFrame

\* The program drops the reader and ends.
ApiClose ==
    /\ pc = "api"
    /\ ReleaseProcess
    /\ UNCHANGED file

Next ==
    \/ Invoke
    \/ MainOpen
    \/ MainMetadata
    \/ MainSchema
    \/ MainHead
    \/ MainTail
    \/ MainCount
    \/ MainExcept
    \/ ProcessEnd
    \/ PrintTableBatch
    \/ PrintTableRow
    \/ ApiOpen
    \/ ApiReadHead
    \/ ApiReadTail
    \/ ApiReadColumns
    \/ ApiNumRows
    \/ ApiClose

Spec == Init /\ [][Next]_vars

\* The statements of one process run one after the other and never stop
\* half-way: single-threaded, synchronous code.
FairSpec == Spec /\ WF_vars(Next)

\* ------------------------------------------------------------- properties
\* A valid container: the footer parses and every row group decodes.
ValidContainer == file.kind = "valid" /\ file.bad = 0

\* The rows of a full decode, in on-disk order: every row group, decoded and
\* concatenated in ordinal order.
FullDecode(f) ==
    Flatten([g \in 1..Len(f.groups) |-> DecodeGroup(f, f.footer.schema, g)])

\* Count(handle) of the container.
Count(f) == f.footer.num_rows

\* The on-disk row indices (1-based) stored in row group g.
GroupRange(f, g) == (GroupOffset(f.groups, g) + 1)..(GroupOffset(f.groups, g) + f.groups[g])

\* C1: on a valid container, read_head(n) with n >= 0 succeeds (also for
\* n = 0) and returns exactly min(n, Count) rows, which are the first
\* min(n, Count) rows of a full decode, in on-disk order.
C1_ReadHeadFirstRows ==
    (call.op = "read_head" /\ ValidContainer) =>
        /\ call.ok
        /\ NumRows(call.table) = Min(call.n, Count(file))
        /\ Rows(call.table) = SubSeq(FullDecode(file), 1, Min(call.n, Count(file)))
        /\ (call.n = 0 => Rows(call.table) = <<>>)

\* A head strictly inside a container of two row groups.
C1_Witness ==
    /\ call.op = "read_head" /\ ValidContainer /\ call.ok
    /\ Len(file.groups) = 2
    /\ call.n > file.groups[1] /\ call.n < Count(file)
    /\ NumRows(call.table) = call.n

\* C2: on a valid container, read_tail(n) with n >= 0 succeeds (also for
\* n = 0 and for n >= Count) and returns exactly min(n, Count) rows, which
\* are the last min(n, Count) rows of a full decode, in on-disk order; for
\* n >= Count these are all rows, from the first one.
C2_ReadTailLastRows ==
    (call.op = "read_tail" /\ ValidContainer) =>
        LET m == Min(call.n, Count(file))
        IN  /\ call.ok
            /\ NumRows(call.table) = m
            /\ Rows(call.table) = SubSeq(FullDecode(file), Count(file) - m + 1, Count(file))
            /\ (call.n = 0 => Rows(call.table) = <<>>)
            /\ (call.n >= Count(file) => Rows(call.table) = FullDecode(file))

\* A tail longer than a container of two row groups.
C2_Witness ==
    /\ call.op = "read_tail" /\ ValidContainer /\ call.ok
    /\ Len(file.groups) = 2
    /\ call.n > Count(file)
    /\ NumRows(call.table) = Count(file)

\* The on-disk row indices of the window a head / tail call asks for.
Window(c, f) ==
    IF c.op = "read_head" THEN 1..Min(c.n, Count(f))
    ELSE (Count(f) - Min(c.n, Count(f)) + 1)..Count(f)

\* C3: read_head and read_tail decode only row groups with at least one row
\* inside the requested window.
C3_DecodesOnlyWindowGroups ==
    (call.op \in {"read_head", "read_tail"} /\ ValidContainer) =>
        \A g \in call.decoded : GroupRange(file, g) \cap Window(call, file) # {}

\* C4: on a valid container, num_rows returns the footer's num_rows, which is
\* the number of rows of a full decode, and decodes no row group; the --count
\* path prints that number.
C4_CountIsFooterRows ==
    (call.op = "num_rows" /\ ValidContainer) =>
        /\ call.ok
        /\ call.value = file.footer.num_rows
        /\ call.value = Len(FullDecode(file))
        /\ call.decoded = {}
        /\ (pc = "done" =>
               console[Len(console)] = [kind |-> "count",
                                        text |-> ToString(Len(FullDecode(file))) \o " rows"])

\* --count on a container of two row groups and at least three rows.
C4_Witness ==
    /\ call.op = "num_rows" /\ ValidContainer /\ pc = "done"
    /\ Len(file.groups) = 2 /\ call.value >= 3
    /\ console[Len(console)].kind = "count"

\* The positions of a session at which a query on the reader runs.
QueryPcs == {"metadata", "schema", "head", "tail", "count", "for_batch", "for_row", "api"}

\* What the display options print.
DataKinds == {"metadata", "schema", "table", "count"}

\* main() was run on a file and has ended.
MainEndedOnFile == pc = "done" /\ ~args.version /\ ~IsNone(args.file)

\* C5: on a path that does not exist the constructor raises
\* FileNotFoundError before any footer parse, no reader exists and no query
\* runs; main() prints the error message and nothing else, and exits with 1.
C5_MissingFileNotFound ==
    file.kind = "missing" =>
        /\ reader = None
        /\ call.op \in {"none", "open"}
        /\ (call.op = "open" =>
               ~call.ok /\ call.error = "FileNotFoundError" /\ call.value = 0)
        /\ pc \notin QueryPcs
        /\ \A i \in 1..Len(console) : console[i].kind \notin DataKinds
        /\ (MainEndedOnFile =>
               /\ exit_code = Some(1)
               /\ console = <<[kind |-> "error", message |-> "File not found: data.parquet"]>>)

\* main() has ended on a missing file.
C5_Witness ==
    /\ file.kind = "missing" /\ MainEndedOnFile
    /\ call.op = "open" /\ ~call.ok
    /\ ~IsNone(args.head) /\ args.count
    /\ exit_code = Some(1)

\* C6: on an existing file whose footer does not parse the constructor
\* raises the footer-parse error (not FileNotFoundError), no reader exists
\* and no query runs; main() prints the failure and exits with 1.  Whenever a
\* reader exists, the file is a container and the reader holds its whole
\* footer and schema.
C6_CorruptFileNoHandle ==
    /\ file.kind = "corrupt" =>
        /\ reader = None
        /\ call.op \in {"none", "open"}
        /\ (call.op = "open" =>
               ~call.ok /\ call.error = "ArrowInvalid" /\ call.value = 1)
        /\ pc \notin QueryPcs
        /\ \A i \in 1..Len(console) : console[i].kind \notin DataKinds
        /\ (MainEndedOnFile =>
               /\ exit_code = Some(1)
               /\ console = <<[kind |-> "error",
                               message |-> "Failed to read Parquet file: ArrowInvalid"]>>)
    /\ ~IsNone(reader) =>
        /\ file.kind = "valid"
        /\ Metadata(Val(reader)) = file.footer
        /\ SchemaOf(Val(reader)) = file.footer.schema
    /\ pc \in QueryPcs => ~IsNone(reader)

\* main() has ended on a file with an unparseable footer.
C6_Witness ==
    /\ file.kind = "corrupt" /\ MainEndedOnFile
    /\ call.op = "open" /\ ~call.ok
    /\ args.schema
    /\ exit_code = Some(1)

\* C7: read_columns fails with UnknownColumn whenever a requested name is not
\* in the schema, and returns no result.
C7_UnknownColumnFails ==
    (/\ call.op = "read_columns"
     /\ ~IsNone(call.columns)
     /\ \E c \in Range(Val(call.columns)) : c \notin Range(FieldNames(file.footer.schema)))
    => (~call.ok /\ call.error = "UnknownColumn")

\* The column of field c of a sequence of rows.
ColumnOf(rows, c) == [i \in 1..Len(rows) |-> rows[i][c]]

\* C8: on a valid container, read_columns(None) returns every field of the
\* schema over all rows, and read_columns([f]) for a schema field f returns
\* exactly the column f, with the rows of a full decode in the same order.
C8_ReadColumnsRoundTrip ==
    (call.op = "read_columns" /\ ValidContainer) =>
        LET info == GetSchemaInfo(Val(ParquetReaderInit(Path, file).reader))
            names == [i \in 1..Len(info) |-> info[i].name]
        IN  /\ call.ok
            /\ IsNone(call.columns) =>
                 /\ ColumnNames(call.table) = names
                 /\ Rows(call.table) = FullDecode(file)
            /\ \A c \in Range(names) :
                 call.columns = Some(<<c>>) =>
                   /\ ColumnNames(call.table) = <<c>>
                   /\ NumRows(call.table) = Len(FullDecode(file))
                   /\ \A i \in 1..NumRows(call.table) : DOMAIN Rows(call.table)[i] = {c}
                   /\ ColumnOf(Rows(call.table), c) = ColumnOf(FullDecode(file), c)

\* The struct column alone, from a container of two row groups.
C8_Witness ==
    /\ call.op = "read_columns" /\ ValidContainer /\ call.ok
    /\ call.columns = Some(<<"point">>)
    /\ Len(file.groups) = 2
    /\ NumRows(call.table) >= 2

\* C9: the metadata record has num_columns, the logical count, equal to the
\* number of top-level fields of the schema and shown as "(logical)", and
\* num_physical_columns, the leaf-column count, as a separate entry.
C9_LogicalColumnCount ==
    (pc = "done" /\ call.op = "get_metadata_dict") =>
        LET lines == console[Len(console)].lines
            top == Len(GetSchemaInfo(Val(reader)))
        IN  /\ \E i \in 1..Len(lines) :
                 /\ lines[i].key = "num_columns"
                 /\ lines[i].note = "(logical)"
                 /\ lines[i].value = ToString(top)
            /\ \E i \in 1..Len(lines) :
                 /\ lines[i].key = "num_physical_columns"
                 /\ lines[i].value = ToString(LeafCount(file.footer.schema))

\* The display strings of the rows of a table: row by row in table order,
\* one string per column in column order.
Display(t) ==
    [i \in 1..NumRows(t) |->
        [j \in 1..Len(t.schema) |-> PyStr(t.schema[j].type, Rows(t)[i][t.schema[j].name])]]

Printing == pc \in {"for_batch", "for_row"}

\* While print_table runs, the rows added so far are the display rows of a
\* prefix of the table; what it prints is the display rows of the whole table.
PrintTableRows ==
    /\ Printing =>
         /\ Len(pt.rows) <= NumRows(table)
         /\ pt.rows = SubSeq(Display(table), 1, Len(pt.rows))
    /\ (pc \in {"tail", "count"} /\ console # <<>> /\ console[Len(console)].kind = "table") =>
         LET out == console[Len(console)]
         IN  /\ out.columns = ColumnNames(table)
             /\ out.rows = Display(table)
             /\ \A i \in 1..Len(out.rows) : Len(out.rows[i]) = Len(out.columns)

\* A step inside print_table adds at most one row and never goes back to an
\* earlier batch.
PrintTableForward ==
    (Printing /\ Printing') =>
        /\ pt'.bi \in {pt.bi, pt.bi + 1}
        /\ pt'.rows = pt.rows \/ (Len(pt'.rows) = Len(pt.rows) + 1 /\ pt'.bi = pt.bi)
        /\ pt'.batches = pt.batches

\* The steps print_table has left at most: one per row still to add, one
\* per batch still to fetch, one per end of a row loop, one for the print.
StepsLeft ==
    LET rest == SubSeq(pt.batches, pt.bi + 1, Len(pt.batches))
        later == Len(Flatten(rest)) + 2 * Len(rest) + 1
    IN  IF pc = "for_row" THEN (pt.batch_size - pt.row_idx) + 1 + later ELSE later

\* print_table is never stuck, and every step of it uses up one of the
\* steps it has left: it ends after at most StepsLeft steps.
PrintTableNotStuck ==
    Printing => (StepsLeft > 0 /\ ENABLED (PrintTableBatch \/ PrintTableRow))

PrintTableProgress == (Printing /\ Printing') => StepsLeft' < StepsLeft

\* C10: print_table is a finite forward-only single pass: it ends, and every
\* row of its input becomes exactly one output row, in batch order and row
\* order within the batch, with one display string per column.
C10_PrintTableSinglePass ==
    /\ [](PrintTableRows /\ PrintTableNotStuck)
    /\ [][PrintTableForward /\ PrintTableProgress]_vars

\* A printed preview of three or more rows that came in two batches.
C10_Witness ==
    /\ pc \in {"tail", "count"} /\ console # <<>>
    /\ console[Len(console)].kind = "table"
    /\ Len(pt.batches) = 2
    /\ Len(console[Len(console)].rows) >= 3

\* C11: row display is incremental: the rows of a batch are printed before
\* the next batch is taken, so the rows print_table holds and has not yet
\* printed are never more than the rows of the batch it is working on.
C11_IncrementalDisplay ==
    Printing => Len(pt.rows) <= pt.batch_size

\* A reader opened on the file just now.
FreshReader == Val(ParquetReaderInit(Path, file).reader)

\* What the last query returns on a reader opened just now.
FirstResult ==
    IF call.op = "read_head" THEN ReadHead(FreshReader, file, call.n)
    ELSE IF call.op = "read_tail" THEN ReadTail(FreshReader, file, call.n)
    ELSE IF call.op = "read_columns" THEN ReadColumns(FreshReader, file, call.columns)
    ELSE NumRowsCall(FreshReader)

\* A reader holds the path it was given and the footer and schema of the
\* file, after one footer parse; a query returns what it returns on a reader
\* opened just now.
HandleAsOpened ==
    /\ ~IsNone(reader) =>
         /\ footer_parses = 1
         /\ Val(reader).file_path = Path
         /\ Metadata(Val(reader)) = file.footer
         /\ SchemaOf(Val(reader)) = file.footer.schema
    /\ call.op \in {"read_head", "read_tail", "read_columns", "num_rows"} =>
         call = CallOf(call.op, call.n, call.columns, FirstResult)

\* No step changes a reader that exists or parses the footer again, and a
\* query repeated at once returns the same result.
HandleUnchanged ==
    /\ (~IsNone(reader) /\ ~IsNone(reader')) =>
         (reader' = reader /\ footer_parses' = footer_parses)
    /\ (pc = "api" /\ pc' = "api" /\ call'.op = call.op /\ call'.n = call.n
          /\ call'.columns = call.columns) => call' = call

\* C12: a reader is immutable once constructed: the footer is parsed exactly
\* once, at open; no query changes the reader's path, footer metadata or
\* schema; a repeated query returns the same result as its first invocation.
C12_HandleImmutable ==
    /\ []HandleAsOpened
    /\ [][HandleUnchanged]_vars

\* Four queries were made on one reader: schema, head, tail and count.
C12_Witness ==
    /\ pc = "done" /\ exit_code = Some(0)
    /\ args.schema /\ ~IsNone(args.head) /\ ~IsNone(args.tail) /\ args.count
    /\ Len(console) = 4
    /\ ~IsNone(reader) /\ footer_parses = 1

\* C13: main() is never left - by its return after the metadata, by its
\* normal end or by the exit with code 1 after an error - with the
\* descriptor of the reader still held.
C13_DescriptorReleased == pc = "done" => ~fd

\* What names an output: the title of a preview, the kind of anything else.
OutputTag(item) == IF item.kind = "table" THEN item.title ELSE item.kind

OutputTags == [i \in 1..Len(console) |-> OutputTag(console[i])]

\* The outputs and the exit code the options ask for: the metadata alone
\* when no option is given; otherwise schema, head preview, tail preview and
\* count, each if selected, cut short by the error of the first step that fails.
Expected(a, f) ==
    LET sch == IF a.schema THEN <<"schema">> ELSE <<>>
        hd == IF IsNone(a.head) THEN <<>> ELSE <<"First " \o ToString(Val(a.head)) \o " Rows">>
        tl == IF IsNone(a.tail) THEN <<>> ELSE <<"Last " \o ToString(Val(a.tail)) \o " Rows">>
        cnt == IF a.count THEN <<"count">> ELSE <<>>
        headFails == ~IsNone(a.head) /\ ~ReadHead(FreshReader, f, Val(a.head)).ok
        tailFails == ~IsNone(a.tail) /\ ~ReadTail(FreshReader, f, Val(a.tail)).ok
    IN  IF ~a.schema /\ IsNone(a.head) /\ IsNone(a.tail) /\ ~a.count
        THEN [out |-> <<"metadata">>, code |-> 0]
        ELSE IF headFails THEN [out |-> sch \o <<"error">>, code |-> 1]
        ELSE IF tailFails THEN [out |-> sch \o hd \o <<"error">>, code |-> 1]
        ELSE [out |-> sch \o hd \o tl \o cnt, code |-> 0]

\* C14: on a file that opens, what main() prints is fixed by the options:
\* at every moment a prefix of the expected outputs, and at its end exactly
\* the expected outputs with the expected exit code.
C14_OutputByFlags ==
    (file.kind = "valid" /\ pc \notin {"idle", "api"} /\ ~args.version /\ ~IsNone(args.file)) =>
        LET e == Expected(args, file)
        IN  /\ Len(console) <= Len(e.out)
            /\ OutputTags = SubSeq(e.out, 1, Len(console))
            /\ (pc = "done" => (OutputTags = e.out /\ exit_code = Some(e.code)))
            /\ (pc # "done" => exit_code = None)

\* All four options on a container that decodes.
C14_Witness ==
    /\ pc = "done" /\ ValidContainer /\ exit_code = Some(0)
    /\ args.schema /\ ~IsNone(args.head) /\ ~IsNone(args.tail) /\ args.count
    /\ OutputTags = <<"schema", "First " \o ToString(Val(args.head)) \o " Rows",
                      "Last " \o ToString(Val(args.tail)) \o " Rows", "count">>
    /\ Val(args.head) # Val(args.tail)
====
